---- MODULE Spec2Model ----
(***************************************************************************)
(* The research-task orchestrator of yugborana/Weaver                      *)
(* (app/orchestrator/coordinator.py) over its document store               *)
(* (app/database/connection.py) and its three agents.                      *)
(*                                                                         *)
(* Scheduling is asyncio's: a coroutine runs until it awaits something     *)
(* that suspends.  The suspension points are the capability calls          *)
(* (researcher, critic, reviser) and every observer callback.  The store   *)
(* methods contain no suspending await, so a store method is one step.     *)
(* A step of the model is one such segment; the model additionally lets    *)
(* other coroutines run between two helper calls of a coroutine, which     *)
(* only adds interleavings.                                                *)
(*                                                                         *)
(* One workflow coroutine and one cancel coroutine are active at a time    *)
(* (the caller keeps at most one run per task id; runs of different tasks  *)
(* touch different rows of the store).                                     *)
(***************************************************************************)
EXTENDS Integers, Sequences, FiniteSets

\* ------------------------------------------------------------------ bounds
MaxTasks == 1        \* rows the store may hold
\* Events of the environment in one behaviour, counted together: cancel_task
\* calls, register_observer calls, store operations that fail (an exception
\* inside the store method), and the create_task and start_workflow calls
\* after the first of each.
MaxEnvEvents == 2
MaxCycles == 3       \* revisions applied one after the other to one report
MaxResults == 2      \* sources one provider lookup may return
MaxSockets == 3      \* websockets that connect in one behaviour
MaxBroadcasts == 2   \* events broadcast in one behaviour
MaxHistory == 2      \* feedback entries of a task handed to an agent on its own

\* ------------------------------------------------------- program constants
MinQualityScore == 65   \* self.min_quality_score = 6.5, in tenths
MaxLoops == 1           \* max_loops = 1
ProviderCount == 2      \* web_search and wikipedia, one ToolCallRecord each
MaxRevisions == 3       \* ResearchTask.max_revisions, default 3

TaskIds == 1..MaxTasks

\* ResearchStatus
Pending == "pending"
Planning == "planning"
InProgress == "in_progress"
Reviewing == "reviewing"
Revising == "revising"
Completed == "completed"
Failed == "failed"
ResearchStatus == {Pending, Planning, InProgress, Reviewing, Revising, Completed, Failed}
Terminal == {Completed, Failed}

\* CritiqueFeedback.overall_score in tenths: one below the threshold and the
\* threshold itself (which tells >= from >)
Scores == {30, 65}
\* number of deduplicated sources the research phase may come back with
SourceCounts == {0, 2}
\* CritiqueFeedback.decision, filled in by the critic like the score
Decisions == {"approve", "revise"}
\* the two kinds of callback register_observer may be given: one that always
\* returns (routes.broadcast_update swallows its send errors) and one that may raise
ObserverKinds == {"steady", "flaky"}

\* Optional[X]: None is <<>>, a value x is <<x>>
None == <<>>
Some(x) == <<x>>
Last(q) == q[Len(q)]

\* ------------------------------------------------------------------- state
VARIABLES
    research_tasks,  \* table research_tasks: task id -> row
    task_logs,       \* table task_logs: set of rows (task_id, agent_type, message)
    create_result,   \* what the last create_task call gave its caller
    observers,       \* ResearchCoordinator._observers: sequence of callbacks
    obsOwed,         \* per callback: events emitted since it was registered minus
                     \* the events it was called with
    lastEmitter,     \* the coroutine that emitted the latest event
    wf,              \* the start_workflow coroutine
    cn,              \* the cancel_task coroutine
    nRuns,           \* start_workflow invocations so far (the number of the current run)
    nEnv,            \* events of the environment so far
    rv,              \* ReviserAgent's metadata post-processing, exercised on its own
    gd,              \* ResearcherAgent._gather_data_parallel, exercised on its own
    cm,              \* routes.ConnectionManager and its broadcast, exercised on its own
    cr,              \* how the critic fills in CritiqueFeedback.decision
    ap               \* one CriticAgent.process or ReviserAgent.process call on its own

coordinatorVars ==
    <<research_tasks, task_logs, create_result, observers, obsOwed, lastEmitter,
      wf, cn, nRuns, nEnv>>
unitVars == <<rv, gd, cm, cr, ap>>
vars == <<coordinatorVars, unitVars>>

NewRow_InProgress ==
    [id |-> None, status |-> InProgress, plan |-> None, raw_search_results |-> 0,
     current_report |-> None, feedback_history |-> <<>>, revision_count |-> 0]

\* ResearchTask as create_task builds it (models/research.py defaults): no id
\* until the store assigns one
NewRow ==
    [id |-> None, status |-> Pending, plan |-> None, raw_search_results |-> 0,
     current_report |-> None, feedback_history |-> <<>>, revision_count |-> 0]

\* CritiqueFeedback: the two fields the orchestrator and the reviser could read
CritiqueFeedback(score, decision) == [overall_score |-> score, decision |-> decision]

AgentMessage(agent, text, n, err) ==
    [agent_type |-> agent, text |-> text, n |-> n, err |-> err]

NoMessage == AgentMessage("", "", 0, "")

LogRow(tid, m) == [task_id |-> tid, message |-> m]

NoEvent == [type |-> "none", task_id |-> 0, status |-> "", message |-> NoMessage]

IdleWf ==
    [pc |-> "idle", task_id |-> 0, ev |-> NoEvent, idx |-> 0, exc |-> "",
     task |-> NewRow, tools_called |-> 0, report |-> None, loop_count |-> 0, k |-> 0,
     calls |-> <<>>, statuses |-> <<>>, produced |-> <<>>, gate |-> FALSE,
     fresh |-> FALSE, store_failed |-> FALSE, raisers |-> {},
     feedback |-> None, data_failed |-> FALSE, planned |-> FALSE]

IdleCn ==
    [pc |-> "idle", task_id |-> 0, ev |-> NoEvent, idx |-> 0, exc |-> "",
     seen |-> "", wrote |-> FALSE, emitted |-> NoEvent, logged |-> FALSE,
     result |-> None, store_failed |-> FALSE]

\* no reviser post-processing and no gathering under way
NoRevision == [first |-> [generated_by |-> ""], cur |-> [generated_by |-> ""], k |-> 0]
NoGather == [pc |-> "idle", web |-> [state |-> "idle", result |-> <<>>],
             wiki |-> [state |-> "idle", result |-> <<>>],
             tools_called |-> <<>>, unique_sources |-> <<>>,
             pending |-> {}, raw_search_results |-> <<>>, sources |-> <<>>,
             source_count |-> 0]

CoordinatorInit ==
    /\ research_tasks = <<>>
    /\ task_logs = {}
    /\ create_result = [returned |-> None, raised |-> FALSE]
    /\ observers = <<>>
    /\ obsOwed = <<>>
    /\ lastEmitter = "none"
    /\ wf = IdleWf
    /\ cn = IdleCn
    /\ nRuns = 0
    /\ nEnv = 0

\* no websocket accepted yet and no broadcast under way
Sockets == 1..MaxSockets
WsTaskIds == {1, 2}
NoConnections ==
    [active_connections |-> [t \in WsTaskIds |-> <<>>],
     sockets |-> [c \in Sockets |-> [state |-> "new", task_id |-> 0]],
     pc |-> "idle", task_id |-> 0, n |-> 0, i |-> 0, detached |-> FALSE, cur |-> 0,
     at_start |-> {}, left |-> {}, attempted |-> {}, delivered |-> {}]

\* the critic whose decision says what its score says
ByScore == "by_score"

\* no process() call under way
NoProcess ==
    [pc |-> "idle", agent |-> "", task |-> NewRow, given |-> NewRow,
     generation_calls |-> 0, exc |-> "", result |-> None]

Init ==
    /\ CoordinatorInit
    /\ rv = NoRevision
    /\ gd = NoGather
    /\ cm = NoConnections
    /\ cr = ByScore /\ ap = NoProcess

\* --------------------------------------------------------- the store methods
\* `ok` says whether the Supabase call inside the method succeeds; when it does
\* not, the method logs the exception and returns (connection.py: every method
\* wraps its client call in try/except).
Faults(o) == Cardinality({i \in DOMAIN o : ~o[i]})
StoreOutcomes(k, c) ==
    {o \in [1..k -> BOOLEAN] : nEnv + c + Faults(o) <= MaxEnvEvents}

update_task_status_ResetsCount(rt, tid, status, ok) ==
    IF ok /\ tid \in DOMAIN rt
    THEN [rt EXCEPT ![tid].status = status, ![tid].revision_count = 0]
    ELSE rt

get_task(rt, tid, ok) ==
    IF ok /\ tid \in DOMAIN rt THEN Some(rt[tid]) ELSE None

update_task_status(rt, tid, status, ok) ==
    IF ok /\ tid \in DOMAIN rt THEN [rt EXCEPT ![tid].status = status] ELSE rt

save_raw_search_results(rt, tid, results, ok) ==
    IF ok /\ tid \in DOMAIN rt THEN [rt EXCEPT ![tid].raw_search_results = results] ELSE rt

increment_revision_count_Lost(rt, tid, ok) == rt

increment_revision_count(rt, tid, ok) ==
    IF get_task(rt, tid, ok) = None
    THEN rt
    ELSE [rt EXCEPT ![tid].revision_count = rt[tid].revision_count + 1]

save_report(rt, tid, report, ok) ==
    IF ok /\ tid \in DOMAIN rt THEN [rt EXCEPT ![tid].current_report = Some(report)] ELSE rt

save_plan(rt, tid, plan, ok) ==
    IF ok /\ tid \in DOMAIN rt THEN [rt EXCEPT ![tid].plan = Some(plan)] ELSE rt

save_feedback_Overwrite(rt, tid, feedback, ok) ==
    IF get_task(rt, tid, ok) = None
    THEN rt
    ELSE [rt EXCEPT ![tid].feedback_history = <<feedback>>]

save_feedback(rt, tid, feedback, ok) ==
    IF get_task(rt, tid, ok) = None
    THEN rt
    ELSE [rt EXCEPT ![tid].feedback_history = Append(rt[tid].feedback_history, feedback)]

log_agent_message(logs, tid, message, ok) ==
    IF ok THEN logs \cup {LogRow(tid, message)} ELSE logs

\* ------------------------------------------------------ observer fan-out
\* _notify_observers iterates the live list by position, awaiting each callback.
\* idx is the position of the callback being awaited, 0 when no delivery is in
\* progress.
Emit(p, type, tid, status, message) ==
    [p EXCEPT !.ev = [type |-> type, task_id |-> tid, status |-> status,
                      message |-> message],
              !.idx = IF Len(observers) = 0 THEN 0 ELSE 1]

CallbackReturned(p) ==
    [p EXCEPT !.idx = IF p.idx + 1 > Len(observers) THEN 0 ELSE p.idx + 1]

\* an event is emitted: every registered callback is owed it
Emitted(owed) == [i \in DOMAIN owed |-> owed[i] + 1]

\* the callback at position p.idx is called with p's event
Called(owed, p) == [owed EXCEPT ![p.idx] = @ - 1]

\* -------------------------------------------- where an exception lands
LoopTry == {"l168", "l171", "l177", "l181", "l185", "l186", "l189", "l198"}
TopTry == {"l114", "l115", "l118", "l123", "l128", "l130", "l136", "l140",
           "l204", "l208", "l149", "l150"}
Landing_NoLoopHandler(pc) ==
    IF pc \in LoopTry \cup TopTry THEN "except152" ELSE "raised"

Landing(pc) ==
    IF pc \in LoopTry THEN "except202"
    ELSE IF pc \in TopTry THEN "except152"
    ELSE "raised"

\* An exception raised at w.pc: a handler takes it, or it leaves start_workflow
\* and the coroutine is gone.
WfRaise(w, text, who) ==
    IF Landing(w.pc) = "raised"
    THEN [IdleWf EXCEPT !.pc = "raised", !.exc = text]
    ELSE [w EXCEPT !.pc = Landing(w.pc), !.exc = text, !.idx = 0,
                   !.raisers = @ \cup {who}]

\* ------------------------------------------------------------ the helpers
\* _update_status for the workflow coroutine: the store write, then the fan-out
WfUpdateStatus(w, status, ok, nextpc) ==
    /\ research_tasks' = update_task_status(research_tasks, w.task_id, status, ok)
    /\ wf' = [Emit(w, "status_update", w.task_id, status, NoMessage) EXCEPT
                !.pc = nextpc,
                !.statuses = Append(@, status),
                !.store_failed = @ \/ ~ok,
                !.data_failed = @ \/ ~ok]
    /\ obsOwed' = Emitted(obsOwed)
    /\ lastEmitter' = "wf"
WfLog_Unprotected(w, agent, text, n, err, ok, nextpc) ==
    IF ok
    THEN /\ task_logs' = log_agent_message(task_logs, w.task_id,
                                           AgentMessage(agent, text, n, err), ok)
         /\ wf' = [Emit(w, "log_message", w.task_id, "", AgentMessage(agent, text, n, err))
                     EXCEPT !.pc = nextpc]
         /\ obsOwed' = Emitted(obsOwed)
         /\ lastEmitter' = "wf"
    ELSE /\ wf' = WfRaise([w EXCEPT !.store_failed = TRUE], "log write failed", "store")
         /\ UNCHANGED <<task_logs, obsOwed, lastEmitter>>


\* _log for the workflow coroutine: the store insert, then the fan-out
WfLog(w, agent, text, n, err, ok, nextpc) ==
    /\ task_logs' = log_agent_message(task_logs, w.task_id,
                                      AgentMessage(agent, text, n, err), ok)
    /\ wf' = [Emit(w, "log_message", w.task_id, "", AgentMessage(agent, text, n, err))
                EXCEPT !.pc = nextpc, !.store_failed = @ \/ ~ok]
    /\ obsOwed' = Emitted(obsOwed)
    /\ lastEmitter' = "wf"

obsVars == <<observers, obsOwed, lastEmitter>>



\* ------------------------------------------------------------ create_task
\* coordinator.create_task over db.create_task: the store assigns the id; when
\* the insert fails db.create_task returns None and create_task raises.
AnotherTask == IF Len(research_tasks) > 0 THEN 1 ELSE 0

CreateTask_InventsId ==
    /\ Len(research_tasks) < MaxTasks
    /\ \E o \in StoreOutcomes(1, AnotherTask) :
         /\ research_tasks' = IF o[1]
                            THEN Append(research_tasks,
                                        [NewRow EXCEPT !.id = Some(Len(research_tasks) + 1)])
                            ELSE research_tasks
         /\ create_result' = [returned |-> Some(Len(research_tasks) + 1), raised |-> FALSE]
         /\ nEnv' = nEnv + AnotherTask + Faults(o)
    /\ UNCHANGED <<task_logs, obsVars, wf, cn, nRuns>>
    /\ UNCHANGED unitVars

CreateTask ==
    /\ Len(research_tasks) < MaxTasks
    /\ \E o \in StoreOutcomes(1, AnotherTask) :
         /\ research_tasks' = IF o[1]
                            THEN Append(research_tasks,
                                        [NewRow EXCEPT !.id = Some(Len(research_tasks) + 1)])
                            ELSE research_tasks
         /\ create_result' = IF o[1]
                             THEN [returned |-> Some(Len(research_tasks) + 1), raised |-> FALSE]
                             ELSE [returned |-> None, raised |-> TRUE]
         /\ nEnv' = nEnv + AnotherTask + Faults(o)
    /\ UNCHANGED <<task_logs, obsVars, wf, cn, nRuns>>
    /\ UNCHANGED unitVars

\* ---------------------------------------------------------- the capabilities
\* What the agents hand back.  A report is identified by the run and by its
\* position among the reports produced in that run.
FirstDraft(run, sources) ==
    [run |-> run, draft |-> 1,
     metadata |-> [generated_by |-> "ResearcherAgent", source_count |-> sources]]

RevisionNumber_FromZero(report) ==
    IF "revision_number" \in DOMAIN report.metadata
    THEN report.metadata.revision_number
    ELSE 0

\* reviser.py: current_rev = report.metadata.get("revision_number", 1)
RevisionNumber(report) ==
    IF "revision_number" \in DOMAIN report.metadata
    THEN report.metadata.revision_number
    ELSE 1

RevisedMetadata(report, feedback) ==
    [key \in DOMAIN report.metadata \cup
             {"revision_number", "last_critique_score", "revised_by"} |->
        CASE key = "revision_number" -> RevisionNumber(report) + 1
          [] key = "last_critique_score" -> feedback.overall_score
          [] key = "revised_by" -> "AI_Reviser_Agent"
          [] OTHER -> report.metadata[key]]

Revised(run, draft, report, feedback) ==
    [run |-> run, draft |-> draft, metadata |-> RevisedMetadata(report, feedback)]

QualityGate_Strict(score) == score > MinQualityScore

\* coordinator.py line 180
QualityGate(score) == score >= MinQualityScore

GateDecides_ByDecision(feedback) == feedback.decision = "approve"

\* line 180 reads feedback.overall_score and nothing else of the feedback
GateDecides(feedback) == QualityGate(feedback.overall_score)

\* ------------------------------------------------------------ start_workflow
Running(p) == p.pc \notin {"idle", "returned", "raised"}

\* a row no run has written to yet (its status aside)
NeverRun(row) == [row EXCEPT !.status = Pending, !.id = None] = NewRow

\* a start_workflow call after the first is an event of the environment
Again == IF nRuns > 0 THEN 1 ELSE 0

StartWorkflow_RaisesNotFound(tid) ==
    /\ ~Running(wf)
    /\ nRuns' = nRuns + 1
    /\ \E o \in StoreOutcomes(2, Again) :
         LET got == get_task(research_tasks, tid, o[1])
             w == [IdleWf EXCEPT !.task_id = tid, !.store_failed = ~o[1],
                                 !.data_failed = ~o[1]]
         IN  /\ (got = None => o[2])
             /\ nEnv' = nEnv + Again + Faults(o)
             /\ IF got = None
                THEN /\ wf' = [IdleWf EXCEPT !.pc = "raised", !.exc = "task not found"]
                     /\ UNCHANGED <<research_tasks, obsOwed, lastEmitter>>
                ELSE WfUpdateStatus([w EXCEPT !.task = got[1], !.fresh = NeverRun(got[1])],
                                    InProgress, o[2], "l114")
    /\ UNCHANGED <<task_logs, create_result, observers, cn>>
    /\ UNCHANGED unitVars

\* lines 104-114: re-hydrate the task; unknown (or unreadable) id: return.
\* Otherwise the first statement of the try block, _update_status(IN_PROGRESS).
StartWorkflow(tid) ==
    /\ ~Running(wf)
    /\ nRuns' = nRuns + 1
    /\ \E o \in StoreOutcomes(2, Again) :
         LET got == get_task(research_tasks, tid, o[1])
             w == [IdleWf EXCEPT !.task_id = tid, !.store_failed = ~o[1],
                                 !.data_failed = ~o[1]]
         IN  /\ (got = None => o[2])
             /\ nEnv' = nEnv + Again + Faults(o)
             /\ IF got = None
                THEN /\ wf' = [IdleWf EXCEPT !.pc = "returned"]
                     /\ UNCHANGED <<research_tasks, obsOwed, lastEmitter>>
                ELSE WfUpdateStatus([w EXCEPT !.task = got[1], !.fresh = NeverRun(got[1])],
                                    InProgress, o[2], "l114")
    /\ UNCHANGED <<task_logs, create_result, observers, cn>>
    /\ UNCHANGED unitVars

\* line 115
LogStarting ==
    /\ wf.pc = "l114" /\ wf.idx = 0
    /\ \E o \in StoreOutcomes(1, 0) :
         /\ WfLog(wf, "researcher", "Starting Deep Research...", 0, "", o[1], "l115")
         /\ nEnv' = nEnv + Faults(o)
    /\ UNCHANGED <<research_tasks, create_result, observers, cn, nRuns>>
    /\ UNCHANGED unitVars

\* line 118: the call is issued and the coroutine is suspended in it
CallResearcher ==
    /\ wf.pc = "l115" /\ wf.idx = 0
    /\ wf' = [wf EXCEPT !.pc = "l118", !.calls = Append(@, "researcher")]
    /\ UNCHANGED <<research_tasks, task_logs, create_result, obsVars,
                   cn, nRuns, nEnv>>
    /\ UNCHANGED unitVars

GeneratesPlan_Always(task) == TRUE

\* researcher.py 46: if not task.plan
GeneratesPlan(task) == task.plan = None

StatusAfterPlanning_NotOverwritten(task) ==
    IF GeneratesPlan(task) THEN Planning ELSE task.status

\* researcher.py 48 and 54: task.status is set to PLANNING after a plan was
\* generated and then, with no await in between, to IN_PROGRESS in any case
StatusAfterPlanning(task) ==
    LET planned == IF GeneratesPlan(task) THEN [task EXCEPT !.status = Planning] ELSE task
    IN  [planned EXCEPT !.status = InProgress].status

\* researcher.process returned (researcher.py 41-69): the plan is generated only
\* when the task has none, the in-memory status ends as in_progress, the
\* deduplicated sources are dumped into raw_search_results and one
\* ToolCallRecord per provider is appended.  Then lines 121-123.
ResearcherReturns ==
    /\ wf.pc = "l118"
    /\ \E sources \in SourceCounts, o \in StoreOutcomes(2, 0) :
         LET plan == IF GeneratesPlan(wf.task) THEN Some([run |-> nRuns]) ELSE wf.task.plan
             report == FirstDraft(nRuns, sources)
             w == [wf EXCEPT !.task.plan = plan,
                             !.planned = GeneratesPlan(wf.task),
                             !.task.status = StatusAfterPlanning(wf.task),
                             !.task.raw_search_results = sources,
                             !.tools_called = @ + ProviderCount,
                             !.report = Some(report),
                             !.produced = Append(@, report),
                             !.store_failed = @ \/ ~o[1],
                             !.data_failed = @ \/ ~o[1]]
         IN  /\ research_tasks' = save_plan(research_tasks, wf.task_id, plan[1], o[1])
             /\ WfLog(w, "researcher", "Research plan saved", 0, "", o[2], "l123")
             /\ nEnv' = nEnv + Faults(o)
    /\ UNCHANGED <<create_result, observers, cn, nRuns>>
    /\ UNCHANGED unitVars

ResearcherRaises_Retry ==
    /\ wf.pc = "l118"
    /\ wf' = [wf EXCEPT !.pc = "l115"]
    /\ UNCHANGED <<research_tasks, task_logs, create_result, obsVars,
                   cn, nRuns, nEnv>>
    /\ UNCHANGED unitVars

ResearcherRaises_PlanSavedEarly ==
    /\ wf.pc = "l118"
    /\ \E stage \in {"plan", "gather", "draft"}, sources \in SourceCounts :
         /\ (stage = "plan" => GeneratesPlan(wf.task))
         /\ (stage # "draft" => sources = 0)
         /\ wf' = [WfRaise(wf, "research failed", "researcher") EXCEPT
                     !.planned = GeneratesPlan(wf.task),
                     !.task.plan = IF stage # "plan" /\ GeneratesPlan(wf.task)
                                   THEN Some([run |-> nRuns]) ELSE @,
                     !.task.status = IF stage # "plan"
                                     THEN StatusAfterPlanning(wf.task) ELSE @,
                     !.task.raw_search_results = IF stage = "draft" THEN sources ELSE @,
                     !.tools_called = IF stage = "draft" THEN @ + ProviderCount ELSE @]
         /\ research_tasks' =
                IF stage # "plan" /\ GeneratesPlan(wf.task)
                THEN save_plan(research_tasks, wf.task_id, [run |-> nRuns], TRUE)
                ELSE research_tasks
    /\ UNCHANGED <<task_logs, create_result, obsVars, cn, nRuns, nEnv>>
    /\ UNCHANGED unitVars

\* researcher.process raised: in plan generation (only when the task had no
\* plan; nothing is mutated), in source gathering (the in-memory task has its
\* plan and status) or in drafting (it also has the raw results and the
\* tool-call records).
ResearcherRaises ==
    /\ wf.pc = "l118"
    /\ \E stage \in {"plan", "gather", "draft"}, sources \in SourceCounts :
         /\ (stage = "plan" => GeneratesPlan(wf.task))
         /\ (stage # "draft" => sources = 0)
         /\ wf' = [WfRaise(wf, "research failed", "researcher") EXCEPT
                     !.planned = GeneratesPlan(wf.task),
                     !.task.plan = IF stage # "plan" /\ GeneratesPlan(wf.task)
                                   THEN Some([run |-> nRuns]) ELSE @,
                     !.task.status = IF stage # "plan"
                                     THEN StatusAfterPlanning(wf.task) ELSE @,
                     !.task.raw_search_results = IF stage = "draft" THEN sources ELSE @,
                     !.tools_called = IF stage = "draft" THEN @ + ProviderCount ELSE @]
    /\ UNCHANGED <<research_tasks, task_logs, create_result, obsVars,
                   cn, nRuns, nEnv>>
    /\ UNCHANGED unitVars

\* lines 126-128: [TOOLS_USED]
LogToolsUsed ==
    /\ wf.pc = "l123" /\ wf.idx = 0
    /\ wf.tools_called > 0
    /\ \E o \in StoreOutcomes(1, 0) :
         /\ WfLog([wf EXCEPT !.k = 0], "researcher", "[TOOLS_USED]", wf.tools_called, "",
                  o[1], "l128")
         /\ nEnv' = nEnv + Faults(o)
    /\ UNCHANGED <<research_tasks, create_result, observers, cn, nRuns>>
    /\ UNCHANGED unitVars

\* lines 129-131: one [TOOL_CALL] line per record
LogToolCall ==
    /\ wf.pc \in {"l128", "l130"} /\ wf.idx = 0
    /\ wf.k < wf.tools_called
    /\ \E o \in StoreOutcomes(1, 0) :
         /\ WfLog([wf EXCEPT !.k = @ + 1], "researcher", "[TOOL_CALL]", wf.k + 1, "",
                  o[1], "l130")
         /\ nEnv' = nEnv + Faults(o)
    /\ UNCHANGED <<research_tasks, create_result, observers, cn, nRuns>>
    /\ UNCHANGED unitVars

ToolLogsDone ==
    /\ wf.idx = 0
    /\ \/ wf.pc = "l123" /\ wf.tools_called = 0
       \/ wf.pc \in {"l128", "l130"} /\ wf.k = wf.tools_called

\* lines 134-136
SaveRawResults ==
    /\ ToolLogsDone
    /\ wf.task.raw_search_results > 0
    /\ \E o \in StoreOutcomes(2, 0) :
         /\ research_tasks' = save_raw_search_results(research_tasks, wf.task_id,
                                                      wf.task.raw_search_results, o[1])
         /\ WfLog([wf EXCEPT !.store_failed = @ \/ ~o[1], !.data_failed = @ \/ ~o[1]],
                  "researcher", "Saved raw search results",
                  wf.task.raw_search_results, "", o[2], "l136")
         /\ nEnv' = nEnv + Faults(o)
    /\ UNCHANGED <<create_result, observers, cn, nRuns>>
    /\ UNCHANGED unitVars

\* lines 139-140
SaveDraft ==
    /\ \/ wf.pc = "l136" /\ wf.idx = 0
       \/ ToolLogsDone /\ wf.task.raw_search_results = 0
    /\ \E o \in StoreOutcomes(2, 0) :
         /\ research_tasks' = save_report(research_tasks, wf.task_id, wf.report[1], o[1])
         /\ WfLog([wf EXCEPT !.store_failed = @ \/ ~o[1], !.data_failed = @ \/ ~o[1]],
                  "researcher", "Draft v1 generated.", 0, "", o[2], "l140")
         /\ nEnv' = nEnv + Faults(o)
    /\ UNCHANGED <<create_result, observers, cn, nRuns>>
    /\ UNCHANGED unitVars

\* ----------------------------------------------------- _enter_refinement_loop
\* line 143, then lines 162-168: the loop is entered (or re-entered after a
\* completed cycle) while loop_count < max_loops
BeginReview ==
    /\ wf.idx = 0
    /\ \/ wf.pc = "l140"
       \/ wf.pc = "l198" /\ wf.loop_count + 1 < MaxLoops
    /\ \E o \in StoreOutcomes(1, 0) :
         LET w == IF wf.pc = "l140"
                  THEN [wf EXCEPT !.task.current_report = wf.report, !.loop_count = 0]
                  ELSE [wf EXCEPT !.loop_count = @ + 1]
         IN  /\ WfUpdateStatus(w, Reviewing, o[1], "l168")
             /\ nEnv' = nEnv + Faults(o)
    /\ UNCHANGED <<task_logs, create_result, observers, cn, nRuns>>
    /\ UNCHANGED unitVars
CallCritic_ChecksCancel ==
    /\ wf.pc = "l168" /\ wf.idx = 0
    /\ wf' = IF research_tasks[wf.task_id].status = Failed
             THEN WfRaise([wf EXCEPT !.pc = "l171"], "task was cancelled", "cancel")
             ELSE [wf EXCEPT !.pc = "l171", !.calls = Append(@, "critic")]
    /\ UNCHANGED <<research_tasks, task_logs, create_result, obsVars,
                   cn, nRuns, nEnv>>
    /\ UNCHANGED unitVars


\* line 171: critic.process checks its precondition before it awaits (critic.py 33-34)
CallCritic ==
    /\ wf.pc = "l168" /\ wf.idx = 0
    /\ wf' = IF wf.task.current_report = None
             THEN [WfRaise([wf EXCEPT !.pc = "l171"], "No report found in task to critique",
                           "critic") EXCEPT !.calls = Append(@, "critic")]
             ELSE [wf EXCEPT !.pc = "l171", !.calls = Append(@, "critic")]
    /\ UNCHANGED <<research_tasks, task_logs, create_result, obsVars,
                   cn, nRuns, nEnv>>
    /\ UNCHANGED unitVars

\* the decisions the critic may attach to a score: the one that agrees with
\* the score, or any
DecisionsFor(score) ==
    IF cr = ByScore /\ ap = NoProcess
    THEN {IF score >= MinQualityScore THEN "approve" ELSE "revise"}
    ELSE Decisions

\* lines 171-177: the feedback is saved, appended to the in-memory history, logged
CriticReturns ==
    /\ wf.pc = "l171"
    /\ \E score \in Scores, o \in StoreOutcomes(2, 0) : \E decision \in DecisionsFor(score) :
         LET feedback == CritiqueFeedback(score, decision)
             w == [wf EXCEPT !.feedback = Some(feedback),
                             !.task.feedback_history = Append(@, feedback),
                             !.gate = @ \/ score >= MinQualityScore,
                             !.store_failed = @ \/ ~o[1],
                             !.data_failed = @ \/ ~o[1]]
         IN  /\ research_tasks' = save_feedback(research_tasks, wf.task_id, feedback, o[1])
             /\ WfLog(w, "critic", "Round Score", score, "", o[2], "l177")
             /\ nEnv' = nEnv + Faults(o)
    /\ UNCHANGED <<create_result, observers, cn, nRuns>>
    /\ UNCHANGED unitVars

CriticRaises ==
    /\ wf.pc = "l171"
    /\ wf' = WfRaise(wf, "critique failed", "critic")
    /\ UNCHANGED <<research_tasks, task_logs, create_result, obsVars,
                   cn, nRuns, nEnv>>
    /\ UNCHANGED unitVars

LatestFeedback_First(w) == w.task.feedback_history[1]

\* reviser.py 43: feedback = task.feedback_history[-1]
LatestFeedback(w) == w.task.feedback_history[Len(w.task.feedback_history)]

\* lines 180-181
GatePassed ==
    /\ wf.pc = "l177" /\ wf.idx = 0
    /\ GateDecides(wf.feedback[1])
    /\ \E o \in StoreOutcomes(1, 0) :
         /\ WfLog(wf, "critic", "Quality Gate Passed.", 0, "", o[1], "l181")
         /\ nEnv' = nEnv + Faults(o)
    /\ UNCHANGED <<research_tasks, create_result, observers, cn, nRuns>>
    /\ UNCHANGED unitVars

\* line 185
BeginRevising ==
    /\ wf.pc = "l177" /\ wf.idx = 0
    /\ ~GateDecides(wf.feedback[1])
    /\ \E o \in StoreOutcomes(1, 0) :
         /\ WfUpdateStatus(wf, Revising, o[1], "l185")
         /\ nEnv' = nEnv + Faults(o)
    /\ UNCHANGED <<task_logs, create_result, observers, cn, nRuns>>
    /\ UNCHANGED unitVars

\* line 186
LogImplementing ==
    /\ wf.pc = "l185" /\ wf.idx = 0
    /\ \E o \in StoreOutcomes(1, 0) :
         /\ WfLog(wf, "reviser", "Implementing improvements...", 0, "", o[1], "l186")
         /\ nEnv' = nEnv + Faults(o)
    /\ UNCHANGED <<research_tasks, create_result, observers, cn, nRuns>>
    /\ UNCHANGED unitVars

\* line 189: reviser.process checks its preconditions before it awaits (reviser.py 33-40)
CallReviser ==
    /\ wf.pc = "l186" /\ wf.idx = 0
    /\ wf' = IF wf.task.current_report = None
             THEN [WfRaise([wf EXCEPT !.pc = "l189"],
                           "Reviser cannot work without an existing report", "reviser")
                     EXCEPT !.calls = Append(@, "reviser")]
             ELSE IF wf.task.feedback_history = <<>>
             THEN [WfRaise([wf EXCEPT !.pc = "l189"],
                           "Reviser cannot work without critique feedback", "reviser")
                     EXCEPT !.calls = Append(@, "reviser")]
             ELSE [wf EXCEPT !.pc = "l189", !.calls = Append(@, "reviser")]
    /\ UNCHANGED <<research_tasks, task_logs, create_result, obsVars,
                   cn, nRuns, nEnv>>
    /\ UNCHANGED unitVars

ReviserReturns_NoLocalIncrement ==
    /\ wf.pc = "l189"
    /\ \E o \in StoreOutcomes(3, 0) :
         LET new_report == Revised(nRuns, Len(wf.produced) + 1,
                                   wf.task.current_report[1], LatestFeedback(wf))
             w == [wf EXCEPT !.task.current_report = Some(new_report),
                             !.produced = Append(@, new_report),
                             !.store_failed = @ \/ ~o[1] \/ ~o[2],
                             !.data_failed = @ \/ ~o[1] \/ ~o[2]]
         IN  /\ research_tasks' =
                    increment_revision_count(
                        save_report(research_tasks, wf.task_id, new_report, o[1]),
                        wf.task_id, o[2])
             /\ WfLog(w, "reviser", "Revision completed.", w.task.revision_count, "",
                      o[3], "l198")
             /\ nEnv' = nEnv + Faults(o)
    /\ UNCHANGED <<create_result, observers, cn, nRuns>>
    /\ UNCHANGED unitVars

\* lines 189-198: the revised report (reviser.py 42-112) is saved and becomes
\* the in-memory current report; the counter is incremented in the store and
\* in memory; the completion is logged
ReviserReturns ==
    /\ wf.pc = "l189"
    /\ \E o \in StoreOutcomes(3, 0) :
         LET new_report == Revised(nRuns, Len(wf.produced) + 1,
                                   wf.task.current_report[1], LatestFeedback(wf))
             w == [wf EXCEPT !.task.current_report = Some(new_report),
                             !.task.revision_count = @ + 1,
                             !.produced = Append(@, new_report),
                             !.store_failed = @ \/ ~o[1] \/ ~o[2],
                             !.data_failed = @ \/ ~o[1] \/ ~o[2]]
         IN  /\ research_tasks' =
                    increment_revision_count(
                        save_report(research_tasks, wf.task_id, new_report, o[1]),
                        wf.task_id, o[2])
             /\ WfLog(w, "reviser", "Revision completed.", w.task.revision_count, "",
                      o[3], "l198")
             /\ nEnv' = nEnv + Faults(o)
    /\ UNCHANGED <<create_result, observers, cn, nRuns>>
    /\ UNCHANGED unitVars

ReviserRaises ==
    /\ wf.pc = "l189"
    /\ wf' = WfRaise(wf, "revision failed", "reviser")
    /\ UNCHANGED <<research_tasks, task_logs, create_result, obsVars,
                   cn, nRuns, nEnv>>
    /\ UNCHANGED unitVars

LogRefinementError_Continue ==
    /\ wf.pc = "except202"
    /\ \E o \in StoreOutcomes(1, 0) :
         /\ WfLog(wf, "critic", "Refinement error", 0, wf.exc, o[1], "l140")
         /\ nEnv' = nEnv + Faults(o)
    /\ UNCHANGED <<research_tasks, create_result, observers, cn, nRuns>>
    /\ UNCHANGED unitVars

\* lines 202-206: the loop's handler logs the error and breaks
LogRefinementError ==
    /\ wf.pc = "except202"
    /\ \E o \in StoreOutcomes(1, 0) :
         /\ WfLog(wf, "critic", "Refinement error", 0, wf.exc, o[1], "l204")
         /\ nEnv' = nEnv + Faults(o)
    /\ UNCHANGED <<research_tasks, create_result, observers, cn, nRuns>>
    /\ UNCHANGED unitVars

\* line 208: after a break, or when the budget is spent (line 200 then 165)
LogRefinementDone ==
    /\ wf.idx = 0
    /\ \/ wf.pc = "l204"
       \/ wf.pc = "l198" /\ wf.loop_count + 1 >= MaxLoops
    /\ \E o \in StoreOutcomes(1, 0) :
         /\ WfLog([wf EXCEPT !.loop_count = IF wf.pc = "l198" THEN @ + 1 ELSE @],
                  "researcher", "Refinement phase completed. Finalizing report.", 0, "",
                  o[1], "l208")
         /\ nEnv' = nEnv + Faults(o)
    /\ UNCHANGED <<research_tasks, create_result, observers, cn, nRuns>>
    /\ UNCHANGED unitVars

\* line 149, reached when the loop method returned (line 182 or after line 208)
Complete ==
    /\ wf.pc \in {"l181", "l208"} /\ wf.idx = 0
    /\ \E o \in StoreOutcomes(1, 0) :
         /\ WfUpdateStatus(wf, Completed, o[1], "l149")
         /\ nEnv' = nEnv + Faults(o)
    /\ UNCHANGED <<task_logs, create_result, observers, cn, nRuns>>
    /\ UNCHANGED unitVars

\* line 150
LogCompleted ==
    /\ wf.pc = "l149" /\ wf.idx = 0
    /\ \E o \in StoreOutcomes(1, 0) :
         /\ WfLog(wf, "researcher", "Workflow Completed Successfully.", 0, "", o[1], "l150")
         /\ nEnv' = nEnv + Faults(o)
    /\ UNCHANGED <<research_tasks, create_result, observers, cn, nRuns>>
    /\ UNCHANGED unitVars

\* lines 152-155: the top-level handler
WorkflowFailed ==
    /\ wf.pc = "except152"
    /\ \E o \in StoreOutcomes(1, 0) :
         /\ WfUpdateStatus(wf, Failed, o[1], "l155")
         /\ nEnv' = nEnv + Faults(o)
    /\ UNCHANGED <<task_logs, create_result, observers, cn, nRuns>>
    /\ UNCHANGED unitVars

LogCriticalError_NoText ==
    /\ wf.pc = "l155" /\ wf.idx = 0
    /\ \E o \in StoreOutcomes(1, 0) :
         /\ WfLog(wf, "researcher", "CRITICAL ERROR", 0, "", o[1], "l156")
         /\ nEnv' = nEnv + Faults(o)
    /\ UNCHANGED <<research_tasks, create_result, observers, cn, nRuns>>
    /\ UNCHANGED unitVars

\* line 156
LogCriticalError ==
    /\ wf.pc = "l155" /\ wf.idx = 0
    /\ \E o \in StoreOutcomes(1, 0) :
         /\ WfLog(wf, "researcher", "CRITICAL ERROR", 0, wf.exc, o[1], "l156")
         /\ nEnv' = nEnv + Faults(o)
    /\ UNCHANGED <<research_tasks, create_result, observers, cn, nRuns>>
    /\ UNCHANGED unitVars

\* the coroutine ends normally
WorkflowReturns ==
    /\ wf.pc \in {"l150", "l156"} /\ wf.idx = 0
    /\ wf' = [IdleWf EXCEPT !.pc = "returned"]
    /\ UNCHANGED <<research_tasks, task_logs, create_result, obsVars,
                   cn, nRuns, nEnv>>
    /\ UNCHANGED unitVars

\* a callback awaited by the workflow returns (line 59)
WfCallbackReturns ==
    /\ wf.idx > 0
    /\ obsOwed' = Called(obsOwed, wf)
    /\ wf' = CallbackReturned(wf)
    /\ UNCHANGED <<research_tasks, task_logs, create_result, observers, lastEmitter,
                   cn, nRuns, nEnv>>
    /\ UNCHANGED unitVars

\* a callback awaited by the workflow raises: nothing catches it in
\* _notify_observers, _update_status or _log
WfCallbackRaises ==
    /\ wf.idx > 0
    /\ observers[wf.idx] = "flaky"
    /\ obsOwed' = Called(obsOwed, wf)
    /\ wf' = WfRaise(wf, "callback failed", "observer")
    /\ UNCHANGED <<research_tasks, task_logs, create_result, observers, lastEmitter,
                   cn, nRuns, nEnv>>
    /\ UNCHANGED unitVars

\* ---------------------------------------------------------------- cancel_task
wfVars == <<wf, nRuns>>

CancelRefused_FailedOnly(got) ==
    got = None \/ got[1].status = Failed

\* line 244
CancelRefused(got) ==
    got = None \/ got[1].status \in {Completed, Failed}

\* lines 243-248: unknown (or unreadable) or terminal: return False; otherwise
\* _update_status(FAILED)
CancelTask(tid) ==
    /\ ~Running(cn)
    /\ \E o \in StoreOutcomes(2, 1) :
         LET got == get_task(research_tasks, tid, o[1])
             refused == CancelRefused(got)
             c == [IdleCn EXCEPT !.task_id = tid,
                                 !.seen = IF got = None THEN "unknown" ELSE got[1].status,
                                 !.store_failed = ~o[1] \/ ~o[2]]
         IN  /\ (refused => o[2])
             /\ nEnv' = nEnv + 1 + Faults(o)
             /\ IF refused
                THEN /\ cn' = [IdleCn EXCEPT !.pc = "returned", !.task_id = tid,
                                              !.result = Some(FALSE)]
                     /\ UNCHANGED <<research_tasks, obsOwed, lastEmitter>>
                ELSE /\ research_tasks' = update_task_status(research_tasks, tid, Failed, o[2])
                     /\ cn' = [Emit(c, "status_update", tid, Failed, NoMessage) EXCEPT
                                 !.pc = "l248", !.wrote = TRUE,
                                 !.emitted = Emit(c, "status_update", tid, Failed, NoMessage).ev]
                     /\ obsOwed' = Emitted(obsOwed)
                     /\ lastEmitter' = "cn"
    /\ UNCHANGED <<task_logs, create_result, observers, wfVars>>
    /\ UNCHANGED unitVars

\* line 249
CancelLog ==
    /\ cn.pc = "l248" /\ cn.idx = 0
    /\ \E o \in StoreOutcomes(1, 0) :
         LET m == AgentMessage("planner", "Task cancelled by user request.", 0, "")
         IN  /\ task_logs' = log_agent_message(task_logs, cn.task_id, m, o[1])
             /\ cn' = [Emit(cn, "log_message", cn.task_id, "", m) EXCEPT
                         !.pc = "l249", !.logged = TRUE, !.store_failed = @ \/ ~o[1]]
             /\ obsOwed' = Emitted(obsOwed)
             /\ lastEmitter' = "cn"
             /\ nEnv' = nEnv + Faults(o)
    /\ UNCHANGED <<research_tasks, create_result, observers, wfVars>>
    /\ UNCHANGED unitVars

\* line 250
CancelReturns ==
    /\ cn.pc = "l249" /\ cn.idx = 0
    /\ cn' = [IdleCn EXCEPT !.pc = "returned", !.task_id = cn.task_id,
                             !.result = Some(TRUE)]
    /\ UNCHANGED <<research_tasks, task_logs, create_result, obsVars,
                   wfVars, nEnv>>
    /\ UNCHANGED unitVars

CnCallbackReturns ==
    /\ cn.idx > 0
    /\ obsOwed' = Called(obsOwed, cn)
    /\ cn' = CallbackReturned(cn)
    /\ UNCHANGED <<research_tasks, task_logs, create_result, observers, lastEmitter,
                   wfVars, nEnv>>
    /\ UNCHANGED unitVars

\* cancel_task has no handler: the exception leaves it
CnCallbackRaises ==
    /\ cn.idx > 0
    /\ observers[cn.idx] = "flaky"
    /\ obsOwed' = Called(obsOwed, cn)
    /\ cn' = [IdleCn EXCEPT !.pc = "raised", !.exc = "callback failed"]
    /\ UNCHANGED <<research_tasks, task_logs, create_result, observers, lastEmitter,
                   wfVars, nEnv>>
    /\ UNCHANGED unitVars

\* ----------------------------------------------------------- register_observer
RegisterObserver(kind) ==
    /\ nEnv < MaxEnvEvents
    /\ nEnv' = nEnv + 1
    /\ observers' = Append(observers, kind)
    /\ obsOwed' = Append(obsOwed, 0)
    /\ UNCHANGED <<research_tasks, task_logs, create_result, lastEmitter,
                   wfVars, cn>>
    /\ UNCHANGED unitVars

Next ==
    \/ CreateTask
    \/ \E kind \in ObserverKinds : RegisterObserver(kind)
    \/ \E tid \in TaskIds : StartWorkflow(tid)
    \/ LogStarting
    \/ CallResearcher
    \/ ResearcherReturns
    \/ ResearcherRaises
    \/ LogToolsUsed
    \/ LogToolCall
    \/ SaveRawResults
    \/ SaveDraft
    \/ BeginReview
    \/ CallCritic
    \/ CriticReturns
    \/ CriticRaises
    \/ GatePassed
    \/ BeginRevising
    \/ LogImplementing
    \/ CallReviser
    \/ ReviserReturns
    \/ ReviserRaises
    \/ LogRefinementError
    \/ LogRefinementDone
    \/ Complete
    \/ LogCompleted
    \/ WorkflowFailed
    \/ LogCriticalError
    \/ WorkflowReturns
    \/ WfCallbackReturns
    \/ WfCallbackRaises
    \/ \E tid \in TaskIds : CancelTask(tid)
    \/ CancelLog
    \/ CancelReturns
    \/ CnCallbackReturns
    \/ CnCallbackRaises

Spec == Init /\ [][Next]_vars

\* A coordinator that has run one task three times, every critique scoring 3.0,
\* every store write succeeding, no observer registered: the state Spec reaches
\* after the third run has returned.  env is the number of environment events
\* counted so far (Spec counts 2 for the two extra runs).
LogsOfThreeRuns ==
    {LogRow(1, AgentMessage(m[1], m[2], m[3], "")) : m \in
        {<<"researcher", "Starting Deep Research...", 0>>,
         <<"researcher", "Research plan saved", 0>>,
         <<"researcher", "[TOOLS_USED]", ProviderCount>>,
         <<"researcher", "[TOOL_CALL]", 1>>,
         <<"researcher", "[TOOL_CALL]", 2>>,
         <<"researcher", "Saved raw search results", 2>>,
         <<"researcher", "Draft v1 generated.", 0>>,
         <<"critic", "Round Score", 30>>,
         <<"reviser", "Implementing improvements...", 0>>,
         <<"reviser", "Revision completed.", 1>>,
         <<"reviser", "Revision completed.", 2>>,
         <<"reviser", "Revision completed.", 3>>,
         <<"researcher", "Refinement phase completed. Finalizing report.", 0>>,
         <<"researcher", "Workflow Completed Successfully.", 0>>}}

AfterThreeRuns(env) ==
    /\ research_tasks =
          <<[id |-> Some(1), status |-> Completed, plan |-> Some([run |-> 1]),
             raw_search_results |-> 2,
             current_report |->
                 Some(Revised(3, 2, FirstDraft(3, 2), CritiqueFeedback(30, "revise"))),
             feedback_history |-> <<CritiqueFeedback(30, "revise"),
                                    CritiqueFeedback(30, "revise"),
                                    CritiqueFeedback(30, "revise")>>,
             revision_count |-> 3]>>
    /\ task_logs = LogsOfThreeRuns
    /\ create_result = [returned |-> Some(1), raised |-> FALSE]
    /\ observers = <<>> /\ obsOwed = <<>> /\ lastEmitter = "wf"
    /\ wf = [IdleWf EXCEPT !.pc = "returned"]
    /\ cn = IdleCn
    /\ nRuns = 3
    /\ nEnv = env
    /\ rv = NoRevision /\ gd = NoGather /\ cm = NoConnections /\ cr = ByScore /\ ap = NoProcess

\* The coordinator as constructed, or picked up after those three runs
LaterInit == Init \/ AfterThreeRuns(0)
LaterSpec == LaterInit /\ [][Next]_vars

\* ----------------------------------------------------------- two listeners
\* register_observer was called twice before the first task is created, with
\* callbacks that return.
TwoListenersInit ==
    /\ research_tasks = <<>>
    /\ task_logs = {}
    /\ create_result = [returned |-> None, raised |-> FALSE]
    /\ observers = <<"steady", "steady">>
    /\ obsOwed = <<0, 0>>
    /\ lastEmitter = "none"
    /\ wf = IdleWf
    /\ cn = IdleCn
    /\ nRuns = 0
    /\ nEnv = 0
    /\ rv = NoRevision /\ gd = NoGather /\ cm = NoConnections /\ cr = ByScore
    /\ ap = NoProcess
TwoListenersSpec == TwoListenersInit /\ [][Next]_vars

\* ------------------------------------------------------------ any decision
\* The critic's answer is whatever the model returned that validates as
\* CritiqueFeedback (critic.py 87-94): decision is a free field next to
\* overall_score, so any decision may come with any score.
Freely == "freely"
DecisionInit ==
    /\ CoordinatorInit
    /\ rv = NoRevision /\ gd = NoGather /\ cm = NoConnections
    /\ cr = Freely /\ ap = NoProcess
DecisionSpec == DecisionInit /\ [][Next]_vars

\* ------------------------------------------- the reviser's post-processing
\* The metadata of a report handed to the reviser: _write_report always stamps
\* generated_by and source_count (researcher.py 226-227); the generated report
\* may already carry a revision_number or any other key (here: language).
LlmRevisionNumbers == {0, 1, 4}

DraftMetadata(sources, rev, extra) ==
    [key \in {"generated_by", "source_count"}
              \cup (IF rev = None THEN {} ELSE {"revision_number"})
              \cup (IF extra THEN {"language"} ELSE {}) |->
        CASE key = "generated_by" -> "ResearcherAgent"
          [] key = "source_count" -> sources
          [] key = "revision_number" -> rev[1]
          [] OTHER -> "en"]

DraftMetadatas ==
    {DraftMetadata(sources, rev, extra) :
        sources \in SourceCounts,
        rev \in {None} \cup {Some(n) : n \in LlmRevisionNumbers},
        extra \in BOOLEAN}

ReviseInit ==
    /\ CoordinatorInit
    /\ gd = NoGather /\ cm = NoConnections /\ cr = ByScore /\ ap = NoProcess
    /\ \E m \in DraftMetadatas : rv = [first |-> m, cur |-> m, k |-> 0]

\* reviser.py 104-110 applied to the report the previous revision returned
\* (coordinator.py 193: task.current_report = new_report)
ReviseAgain ==
    /\ rv.k < MaxCycles
    /\ \E score \in Scores :
         rv' = [rv EXCEPT !.cur = RevisedMetadata([metadata |-> rv.cur],
                                                 [overall_score |-> score]),
                          !.k = @ + 1]
    /\ UNCHANGED <<coordinatorVars, gd, cm, cr, ap>>

ReviseNext == ReviseAgain
ReviseSpec == ReviseInit /\ [][ReviseNext]_vars

\* ------------------------------------------------ _gather_data_parallel
\* The two lookups run concurrently inside asyncio.gather; each wrapper appends
\* its ToolCallRecord when its lookup completes, so tools_called is in
\* completion order, while gather hands the results back in argument order.
Providers == {"web", "wiki"}
ToolName(p) == IF p = "web" THEN "web_search" ELSE "wikipedia_search"

\* ResearchSource.url is Optional[str]: null, empty, or an address
Urls == {None, Some(""), Some("A"), Some("B"), Some("C")}
UrlLists == UNION {[1..n -> Urls] : n \in 0..MaxResults}

\* the sources a lookup returns: told apart by the tool and the position
SourcesOf(p, urls) ==
    [i \in DOMAIN urls |-> [title |-> ToolName(p), n |-> i, url |-> urls[i]]]

ToolCallRecord(tool_name, result_count, success, error) ==
    [tool_name |-> tool_name, result_count |-> result_count,
     success |-> success, error |-> error]

GatherInit ==
    /\ CoordinatorInit
    /\ rv = NoRevision /\ cm = NoConnections /\ cr = ByScore /\ ap = NoProcess
    /\ gd = [NoGather EXCEPT !.pc = "gathering",
                             !.web.state = "running", !.wiki.state = "running"]

\* researcher.py 108-120 and 136-148: the lookup returned
ProviderReturns(p) ==
    /\ gd.pc = "gathering" /\ gd[p].state = "running"
    /\ \E urls \in UrlLists :
         gd' = [gd EXCEPT ![p] = [state |-> "returned", result |-> SourcesOf(p, urls)],
                          !.tools_called =
                              Append(@, ToolCallRecord(ToolName(p), Len(urls), TRUE, None))]
    /\ UNCHANGED <<coordinatorVars, rv, cm, cr, ap>>

ProviderRaises_NoRecord(p) ==
    /\ gd.pc = "gathering" /\ gd[p].state = "running"
    /\ gd' = [gd EXCEPT ![p] = [state |-> "raised", result |-> <<>>]]
    /\ UNCHANGED <<coordinatorVars, rv, cm, cr, ap>>

\* researcher.py 121-132 and 149-160: the lookup raised; the wrapper records
\* the failure and returns []
ProviderRaises(p) ==
    /\ gd.pc = "gathering" /\ gd[p].state = "running"
    /\ gd' = [gd EXCEPT ![p] = [state |-> "raised", result |-> <<>>],
                        !.tools_called =
                            Append(@, ToolCallRecord(ToolName(p), 0, FALSE, Some("timeout")))]
    /\ UNCHANGED <<coordinatorVars, rv, cm, cr, ap>>

Flatten_ByCompletion(g) ==
    IF g.tools_called[1].tool_name = "web_search"
    THEN g.web.result \o g.wiki.result
    ELSE g.wiki.result \o g.web.result

\* lines 163-175: gather returns [web, wikipedia]; the lists are concatenated
Flatten(g) == g.web.result \o g.wiki.result

RECURSIVE Unique_KeepsUrlless(_, _)
Unique_KeepsUrlless(all_sources, n) ==
    IF n = 0 THEN <<>>
    ELSE LET unique_sources == Unique_KeepsUrlless(all_sources, n - 1)
             s == all_sources[n]
         IN  IF \A j \in DOMAIN unique_sources : unique_sources[j].url # s.url
             THEN Append(unique_sources, s)
             ELSE unique_sources

\* lines 178-185: the first source of each truthy URL, in order of appearance
RECURSIVE Unique(_, _)
Unique(all_sources, n) ==
    IF n = 0 THEN <<>>
    ELSE LET unique_sources == Unique(all_sources, n - 1)
             s == all_sources[n]
         IN  IF /\ s.url # None /\ s.url # Some("")
                /\ \A j \in DOMAIN unique_sources : unique_sources[j].url # s.url
             THEN Append(unique_sources, s)
             ELSE unique_sources

Merge_FirstWins ==
    /\ gd.pc = "gathering"
    /\ \E p \in Providers : gd[p].state # "running"
    /\ gd' = [gd EXCEPT !.pc = "merged",
                        !.unique_sources = Unique(Flatten(gd), Len(Flatten(gd)))]
    /\ UNCHANGED <<coordinatorVars, rv, cm, cr, ap>>

\* line 168 resumes when both wrappers are done; lines 170-185
Merge ==
    /\ gd.pc = "gathering"
    /\ \A p \in Providers : gd[p].state # "running"
    /\ gd' = [gd EXCEPT !.pc = "merged",
                        !.unique_sources = Unique(Flatten(gd), Len(Flatten(gd)))]
    /\ UNCHANGED <<coordinatorVars, rv, cm, cr, ap>>

\* researcher.py 56-64 and 187-229: the merged list returned by
\* _gather_data_parallel is dumped into task.raw_search_results and passed to
\* _write_report, which starts the report-writing call with these sources as
\* its context and stamps their number on the report; pending are the lookups
\* still in flight at that time
WriteReport ==
    /\ gd.pc = "merged"
    /\ gd' = [gd EXCEPT !.pc = "writing",
                        !.pending = {p \in Providers : gd[p].state = "running"},
                        !.raw_search_results = gd.unique_sources,
                        !.sources = gd.unique_sources,
                        !.source_count = Len(gd.unique_sources)]
    /\ UNCHANGED <<coordinatorVars, rv, cm, cr, ap>>

GatherNext ==
    \/ \E p \in Providers : ProviderReturns(p)
    \/ \E p \in Providers : ProviderRaises(p)
    \/ Merge
    \/ WriteReport
GatherSpec == GatherInit /\ [][GatherNext]_vars

\* ------------------------------------------------ routes.ConnectionManager
\* active_connections maps a task id to the list of its websockets; the key is
\* there exactly while the list is not empty (connect creates the list and
\* appends in one go, disconnect deletes the key of a list it emptied).  Here
\* it is the sequence of the two lists, the empty one standing for no key.
\* broadcast_to_task iterates the list object it found under the key: a
\* removal or an append made while a send is awaited acts on the list being
\* iterated, unless that list was emptied and dropped from the dictionary
\* (detached), after which a new list under the same key is another object.
WsInit ==
    /\ CoordinatorInit
    /\ rv = NoRevision /\ gd = NoGather /\ cr = ByScore /\ ap = NoProcess
    /\ cm = NoConnections

Broadcasting == cm.pc = "sending"

\* routes.py 77-81 (websocket.accept() first, then the registration)
Connect(c, t) ==
    /\ cm.sockets[c].state = "new"
    /\ cm' = [cm EXCEPT !.sockets[c] = [state |-> "open", task_id |-> t],
                        !.active_connections[t] = Append(@, c)]
    /\ UNCHANGED <<coordinatorVars, rv, gd, cr, ap>>

Remove(list, c) == SelectSeq(list, LAMBDA x : x # c)

\* routes.py 138-139 and 83-88: the client went away
Disconnect(c) ==
    /\ cm.sockets[c].state = "open"
    /\ LET t == cm.sockets[c].task_id
           list == Remove(cm.active_connections[t], c)
           iterated == Broadcasting /\ cm.task_id = t /\ ~cm.detached
       IN  cm' = [cm EXCEPT !.sockets[c].state = "closed",
                           !.active_connections[t] = list,
                           !.detached = @ \/ (iterated /\ list = <<>>),
                           !.left = IF Broadcasting THEN @ \cup {c} ELSE @]
    /\ UNCHANGED <<coordinatorVars, rv, gd, cr, ap>>

\* the list the broadcast iterates, as it is now
Iterated(m) == IF m.detached THEN <<>> ELSE m.active_connections[m.task_id]

\* the for statement of line 92 asks its list iterator for the next item: the
\* item at the iterator's position in the list as it is now, if there is one
NextConnection(m) ==
    IF m.i < Len(Iterated(m))
    THEN [m EXCEPT !.pc = "sending", !.i = @ + 1, !.cur = Iterated(m)[m.i + 1],
                   !.attempted = @ \cup {Iterated(m)[m.i + 1]}]
    ELSE [m EXCEPT !.pc = "done", !.cur = 0]

\* routes.py 104-112 and 90-92: broadcast_update for an event of task t
Broadcast(t) ==
    /\ cm.pc \in {"idle", "done"}
    /\ cm.n < MaxBroadcasts
    /\ LET m == [cm EXCEPT !.task_id = t, !.n = @ + 1, !.i = 0, !.detached = FALSE,
                           !.cur = 0, !.left = {}, !.attempted = {}, !.delivered = {},
                           !.at_start = {cm.active_connections[t][k] :
                                            k \in DOMAIN cm.active_connections[t]}]
       IN  cm' = IF cm.active_connections[t] = <<>>
                 THEN [m EXCEPT !.pc = "done"]
                 ELSE NextConnection(m)
    /\ UNCHANGED <<coordinatorVars, rv, gd, cr, ap>>

\* lines 93-94: send_json returned
SendReturns ==
    /\ Broadcasting
    /\ cm' = NextConnection([cm EXCEPT !.delivered = @ \cup {cm.cur}])
    /\ UNCHANGED <<coordinatorVars, rv, gd, cr, ap>>

\* lines 95-97: send_json raised (a dead connection); the exception is dropped
SendRaises ==
    /\ Broadcasting
    /\ cm' = NextConnection(cm)
    /\ UNCHANGED <<coordinatorVars, rv, gd, cr, ap>>

WsNext ==
    \/ \E c \in Sockets, t \in WsTaskIds : Connect(c, t)
    \/ \E c \in Sockets : Disconnect(c)
    \/ \E t \in WsTaskIds : Broadcast(t)
    \/ SendReturns
    \/ SendRaises
WsSpec == WsInit /\ [][WsNext]_vars

\* ------------------------------------------------- process() of an agent alone
\* CriticAgent.process and ReviserAgent.process are public: a caller may hand
\* them any ResearchTask, with or without a report and feedback.
ProcessAgents == {"critic", "reviser"}
Feedbacks == {CritiqueFeedback(score, decision) : score \in Scores, decision \in Decisions}
FeedbackHistories == UNION {[1..n -> Feedbacks] : n \in 0..MaxHistory}
GivenReports == {None} \cup {Some(FirstDraft(1, sources)) : sources \in SourceCounts}
GivenTasks ==
    {[NewRow EXCEPT !.current_report = report, !.feedback_history = history] :
        report \in GivenReports, history \in FeedbackHistories}

ProcessInit ==
    /\ CoordinatorInit
    /\ rv = NoRevision /\ gd = NoGather /\ cm = NoConnections /\ cr = ByScore
    /\ \E agent \in ProcessAgents, task \in GivenTasks :
         ap = [NoProcess EXCEPT !.pc = "called", !.agent = agent,
                                !.task = task, !.given = task]

MissingInput_ReportOnly(agent, task) ==
    IF task.current_report = None
    THEN IF agent = "critic"
         THEN "No report found in task to critique"
         ELSE "Reviser cannot work without an existing report"
    ELSE ""

\* critic.py 33-34, reviser.py 34-40: the text of the ValueError the validation
\* raises, "" when it raises none
MissingInput(agent, task) ==
    IF task.current_report = None
    THEN IF agent = "critic"
         THEN "No report found in task to critique"
         ELSE "Reviser cannot work without an existing report"
    ELSE IF agent = "reviser" /\ task.feedback_history = <<>>
    THEN "Reviser cannot work without critique feedback"
    ELSE ""

\* the validation at the top of process(); when it passes, the prompt is built
\* and the generation call is started (critic.py 87-92, reviser.py 95-100)
Validate ==
    /\ ap.pc = "called"
    /\ ap' = IF MissingInput(ap.agent, ap.task) # ""
             THEN [ap EXCEPT !.pc = "raised", !.exc = MissingInput(ap.agent, ap.task)]
             ELSE [ap EXCEPT !.pc = "generating", !.generation_calls = @ + 1]
    /\ UNCHANGED <<coordinatorVars, rv, gd, cm, cr>>

\* the generation call returned a validated object (client.py 73-135): the
\* critic returns it, the reviser stamps its metadata and returns it
GenerationReturns ==
    /\ ap.pc = "generating"
    /\ \E feedback \in Feedbacks :
         ap' = [ap EXCEPT !.pc = "returned",
                          !.result =
                              IF ap.agent = "critic"
                              THEN Some(feedback)
                              ELSE Some(Revised(1, 2, ap.task.current_report[1],
                                                Last(ap.task.feedback_history)))]
    /\ UNCHANGED <<coordinatorVars, rv, gd, cm, cr>>

\* the generation call raised (client.py: RuntimeError after the retries)
GenerationRaises ==
    /\ ap.pc = "generating"
    /\ ap' = [ap EXCEPT !.pc = "raised", !.exc = "generation failed"]
    /\ UNCHANGED <<coordinatorVars, rv, gd, cm, cr>>

ProcessNext == Validate \/ GenerationReturns \/ GenerationRaises
ProcessSpec == ProcessInit /\ [][ProcessNext]_vars

\* The event loop resumes a suspended start_workflow coroutine whenever what it
\* awaits has completed: an agent's process() or a callback returns or raises.
WorkflowStep == Running(wf) /\ Next /\ wf' # wf
FairSpec == Spec /\ WF_vars(WorkflowStep)

\* ====================================================================
\* Properties
\* ====================================================================
CallsOf(w, agent) == Cardinality({i \in DOMAIN w.calls : w.calls[i] = agent})
\* the workflow has made its last write and emitted its last event: it is about
\* to return normally
RunEnding == wf.pc \in {"l150", "l156"} /\ wf.idx = 0
Persisted(tid) == research_tasks[tid]
Quiescent == wf.idx = 0 /\ cn.idx = 0

\* C1: once a critique has come back with a score >= min_quality_score, the
\* rest of that run never invokes the reviser, never sets the status to
\* revising, saves no report and increments no revision counter (in the store
\* or in memory).
C1_GateEndsLoop ==
    [][(wf.gate /\ wf'.gate) =>
          /\ CallsOf(wf', "reviser") = CallsOf(wf, "reviser")
          /\ \A i \in DOMAIN wf'.statuses \ DOMAIN wf.statuses : wf'.statuses[i] # Revising
          /\ Persisted(wf.task_id)'.current_report = Persisted(wf.task_id).current_report
          /\ Persisted(wf.task_id)'.revision_count = Persisted(wf.task_id).revision_count
          /\ wf'.task.revision_count = wf.task.revision_count
          /\ wf'.produced = wf.produced]_vars

\* a run whose critique passed the gate has written completed
C1_Witness ==
    /\ wf.gate
    /\ wf.pc = "l150" /\ wf.idx = 0
    /\ Persisted(wf.task_id).status = Completed

\* C2: in every reachable state the revision_count of every stored task is at
\* most the loop budget max_loops.
C2_RevisionCountWithinBudget ==
    \A tid \in DOMAIN research_tasks : research_tasks[tid].revision_count <= MaxLoops

\* C3: a persisted status that is completed or failed never changes again.
C3_TerminalStatusIsFinal ==
    [][\A tid \in DOMAIN research_tasks :
          research_tasks[tid].status \in Terminal =>
              research_tasks'[tid].status = research_tasks[tid].status]_vars

\* C4: cancel_task on an unknown id or on a completed or failed task returns
\* false, writes nothing and emits nothing; on any other persisted status it
\* writes failed, emits status_update(failed), then inserts the cancellation
\* log row, then returns true.  Stated for calls in which the store operations
\* succeed and the callbacks return.
CancelStarts == ~Running(cn) /\ cn' # cn
CancellationRow(tid) ==
    LogRow(tid, AgentMessage("planner", "Task cancelled by user request.", 0, ""))
C5_NeverPropagates == wf.pc # "raised"

C9_CallbackFailureIsolated ==
    /\ "observer" \notin wf.raisers
    /\ wf.exc # "callback failed"
    /\ cn.exc # "callback failed"
    /\ Quiescent => \A i \in DOMAIN obsOwed : obsOwed[i] <= 0

\* C10: every emitted event reaches each callback registered at its emission
\* exactly once, each callback gets the events in emission order, and a
\* callback never gets an event emitted before it was registered.
Overtaking ==
    /\ wf.idx > 0 /\ cn.idx > 0
    /\ \/ lastEmitter = "wf" /\ wf.idx > cn.idx
       \/ lastEmitter = "cn" /\ cn.idx > wf.idx
C10_ExactlyOnceInOrderNoReplay ==
    /\ \A i \in DOMAIN obsOwed : obsOwed[i] >= 0
    /\ Quiescent => \A i \in DOMAIN obsOwed : obsOwed[i] = 0
    /\ ~Overtaking

\* C11: whenever the persisted status of a task is reviewing, revising or
\* completed, its persisted current_report is not null, store failures included.
C11_ReportPresentFromReview ==
    \A tid \in DOMAIN research_tasks :
        research_tasks[tid].status \in {Reviewing, Revising, Completed} =>
            research_tasks[tid].current_report # None

\* C12: whenever a run ends with the persisted status completed, the
\* feedback_history of the task has at least one entry, in the store and in
\* the in-memory task, whatever the critic did.
C12_FeedbackPresentAtCompletion ==
    (RunEnding /\ wf.pc = "l150" /\ Persisted(wf.task_id).status = Completed) =>
        /\ Len(Persisted(wf.task_id).feedback_history) >= 1
        /\ Len(wf.task.feedback_history) >= 1

\* C13: a run whose save_report failed does not go on: the run writes
\* reviewing, revising or completed only when the last report it produced is
\* the persisted current report.
C13_LostReportIsFatal ==
    (wf.statuses # <<>> /\ Last(wf.statuses) \in {Reviewing, Revising, Completed}) =>
        Persisted(wf.task_id).current_report = Some(Last(wf.produced))

C18_CreateOnlyInserts ==
    /\ [][(create_result' # create_result \/ Len(research_tasks') # Len(research_tasks)) =>
             /\ wf' = wf /\ cn' = cn
             /\ task_logs' = task_logs
             /\ observers' = observers /\ obsOwed' = obsOwed /\ lastEmitter' = lastEmitter
             /\ \/ /\ Len(research_tasks') = Len(research_tasks) + 1
                   /\ SubSeq(research_tasks', 1, Len(research_tasks)) = research_tasks
                   /\ research_tasks'[Len(research_tasks')] =
                          [id |-> Some(Len(research_tasks')), status |-> Pending,
                           plan |-> None, raw_search_results |-> 0,
                           current_report |-> None, feedback_history |-> <<>>,
                           revision_count |-> 0]
                   /\ create_result' = [returned |-> Some(Len(research_tasks')),
                                        raised |-> FALSE]
                \/ /\ research_tasks' = research_tasks
                   /\ create_result' = [returned |-> None, raised |-> TRUE]]_vars
    /\ [](wf.calls # <<>> => wf.task_id \in DOMAIN research_tasks)

\* an agent is at work on the task the last create_task returned
C18_Witness ==
    /\ create_result.returned = Some(wf.task_id)
    /\ wf.calls = <<"researcher">> /\ wf.pc = "l118"

\* C19: in the first run of a task, with no cancel_task call, the statuses the
\* run writes start with in_progress, only step forward along in_progress,
\* reviewing, revising, completed (reviewing at most max_loops times) or to
\* failed from a status that is not terminal, and end with completed or failed.
C19_StatusesMoveForward ==
    (nRuns = 1 /\ cn = IdleCn /\ wf.statuses # <<>>) =>
        LET st == wf.statuses
            Forward(a, b) ==
                \/ <<a, b>> \in {<<InProgress, Reviewing>>, <<Reviewing, Revising>>,
                                 <<Reviewing, Completed>>, <<Revising, Reviewing>>,
                                 <<Revising, Completed>>}
                \/ b = Failed /\ a \notin Terminal
        IN  /\ st[1] = InProgress
            /\ \A i \in 1..(Len(st) - 1) : Forward(st[i], st[i + 1])
            /\ Cardinality({i \in DOMAIN st : st[i] = Reviewing}) <= MaxLoops
            /\ RunEnding => Last(st) \in Terminal

\* C20: in every reachable state the revision_count of a task is at most its
\* max_revisions, in the store and in the in-memory task of a run, whatever
\* runs were applied to the task.
C20_RevisionCountWithinCap ==
    /\ \A tid \in DOMAIN research_tasks : research_tasks[tid].revision_count <= MaxRevisions
    /\ wf.task.revision_count <= MaxRevisions

\* C15: after k revisions of a report, metadata.revision_number is the first
\* report's revision_number (1 when it carries none) plus k, and every other
\* metadata key of the first report, last_critique_score and revised_by aside,
\* is still there with its value.
C15_RevisionNumberCounts ==
    LET Number(m) == IF "revision_number" \in DOMAIN m THEN m.revision_number ELSE 1
        stamped == {"revision_number", "last_critique_score", "revised_by"}
    IN  /\ Number(rv.cur) = Number(rv.first) + rv.k
        /\ \A key \in DOMAIN rv.first \ stamped :
              key \in DOMAIN rv.cur /\ rv.cur[key] = rv.first[key]
        /\ rv.k > 0 =>
              /\ DOMAIN rv.cur = DOMAIN rv.first \cup stamped
              /\ rv.cur.revised_by = "AI_Reviser_Agent"

\* three revisions of a draft that carried no revision_number and one other key
C15_Witness ==
    /\ rv.k = 3
    /\ "revision_number" \notin DOMAIN rv.first
    /\ "language" \in DOMAIN rv.first
    /\ rv.cur.revision_number = 4

\* C16: the merged list holds exactly one source per distinct URL of the
\* gathered sources (the ones without a URL aside): for each URL the first one
\* in gather order, which is every web-search result before every wikipedia
\* result whichever lookup completed first, and the survivors are in that order.
C16_MergeKeepsFirstPerUrl ==
    gd.pc = "merged" =>
        LET all == gd.web.result \o gd.wiki.result
            out == gd.unique_sources
            HasUrl(src) == src.url \notin {None, Some("")}
            firsts == {i \in DOMAIN all :
                          HasUrl(all[i]) /\ \A j \in 1..(i - 1) : all[j].url # all[i].url}
        IN  /\ Len(out) = Cardinality({all[i].url : i \in {j \in DOMAIN all : HasUrl(all[j])}})
            /\ \A k, l \in DOMAIN out : k # l => out[k].url # out[l].url
            /\ \A k \in DOMAIN out :
                  \E i \in firsts : /\ out[k] = all[i]
                                    /\ Cardinality({j \in firsts : j < i}) = k - 1

\* {A, B} from the web search and {B, C} from wikipedia, wikipedia first to
\* complete: A, B, C with B the web search's
C16_Witness ==
    /\ gd.pc = "merged"
    /\ gd.tools_called[1].tool_name = "wikipedia_search"
    /\ gd.web.result = SourcesOf("web", <<Some("A"), Some("B")>>)
    /\ gd.wiki.result = SourcesOf("wiki", <<Some("B"), Some("C")>>)
    /\ gd.unique_sources = <<[title |-> "web_search", n |-> 1, url |-> Some("A")],
                             [title |-> "web_search", n |-> 2, url |-> Some("B")],
                             [title |-> "wikipedia_search", n |-> 2, url |-> Some("C")]>>

\* C17: whichever lookups return or raise and in whichever order they complete,
\* the gathering goes on to the merge once both are done, a lookup that raised
\* contributes no source, and tools_called gets exactly one record per lookup
\* that completed: success with the result count when it returned, failure
\* with result_count 0 and the error text when it raised.
C17_OneRecordPerProvider ==
    /\ \A p \in Providers :
          LET recs == {i \in DOMAIN gd.tools_called :
                          gd.tools_called[i].tool_name = ToolName(p)}
          IN  /\ gd[p].state \in {"idle", "running"} => recs = {}
              /\ gd[p].state \in {"returned", "raised"} =>
                    /\ Cardinality(recs) = 1
                    /\ \A i \in recs :
                          LET r == gd.tools_called[i]
                          IN  /\ r.success = (gd[p].state = "returned")
                              /\ gd[p].state = "returned" =>
                                    r.result_count = Len(gd[p].result) /\ r.error = None
                              /\ gd[p].state = "raised" =>
                                    r.result_count = 0 /\ r.error = Some("timeout")
              /\ gd[p].state = "raised" =>
                    \A k \in DOMAIN gd.unique_sources :
                        gd.unique_sources[k].title # ToolName(p)
    /\ (gd.pc = "gathering" /\ \A p \in Providers : gd[p].state \in {"returned", "raised"})
          => ENABLED Merge
    /\ gd.pc = "merged" => Len(gd.tools_called) = Cardinality(Providers)

\* the web search raised after wikipedia returned two sources
C17_Witness ==
    /\ gd.pc = "merged"
    /\ gd.web.state = "raised" /\ gd.wiki.state = "returned"
    /\ gd.tools_called[2] = ToolCallRecord("web_search", 0, FALSE, Some("timeout"))
    /\ Len(gd.unique_sources) = 2

\* C21: a broadcast for task T sends the message to every websocket that was
\* subscribed to T from the start of the broadcast to its end (it is delivered
\* unless that websocket's own send fails) and to no websocket of another
\* task, whatever other sends fail and whichever other websockets of T
\* disconnect meanwhile.
C21_BroadcastReachesSubscribers ==
    cm.pc = "done" =>
        /\ \A c \in cm.at_start \ cm.left : c \in cm.attempted
        /\ \A c \in cm.attempted : cm.sockets[c].task_id = cm.task_id

C25_RevisionUsesThisCyclesFeedback ==
    /\ wf.pc \in {"l186", "l189"} =>
          /\ wf.feedback # None
          /\ Last(wf.task.feedback_history) = wf.feedback[1]
    /\ wf.pc = "l198" =>
          LET revised == wf.task.current_report[1]
          IN  /\ revised = Last(wf.produced)
              /\ revised.metadata.last_critique_score = wf.feedback[1].overall_score
              /\ revised.metadata.last_critique_score < MinQualityScore

\* a second run: the history loaded from the store starts with the first
\* run's 6.5, the revision was made from this run's 3.0
C25_Witness ==
    /\ wf.pc = "l198"
    /\ Len(wf.task.feedback_history) = 2
    /\ wf.task.feedback_history[1].overall_score = 65
    /\ wf.task.current_report[1].metadata.last_critique_score = 30

StatusesFor(calls, raisers) ==
    <<InProgress>>
        \o [i \in 1..(Len(calls) - 1) |->
               IF calls[i + 1] = "critic" THEN Reviewing ELSE Revising]
        \o <<IF "researcher" \in raisers THEN Failed ELSE Completed>>

\* the calls of a finished run are the ones its capability outcomes determine:
\* the researcher first and alone iff it raised; the run stops after the critic
\* only on gate pass or critic error, after the reviser only on reviser error
\* or at max_loops
CallsAsOutcomesDetermine(w) ==
    /\ w.calls # <<>>
    /\ w.raisers \subseteq {"researcher", "critic", "reviser"}
    /\ "researcher" \in w.raisers <=> w.calls = <<"researcher">>
    /\ "critic" \in w.raisers => Last(w.calls) = "critic"
    /\ "reviser" \in w.raisers => Last(w.calls) = "reviser"
    /\ Last(w.calls) = "critic" => (w.gate \/ "critic" \in w.raisers)
    /\ Last(w.calls) = "reviser" =>
          ("reviser" \in w.raisers \/ CallsOf(w, "reviser") = MaxLoops)

C27_LogFailureChangesNothing ==
    (RunEnding /\ ~wf.data_failed /\ "observer" \notin wf.raisers) =>
        /\ CallsAsOutcomesDetermine(wf)
        /\ wf.statuses = StatusesFor(wf.calls, wf.raisers)
        /\ Persisted(wf.task_id).status = Last(wf.statuses)

\* a run that lost a log row and still went through a revision to completed
C27_Witness ==
    /\ RunEnding /\ wf.store_failed /\ ~wf.data_failed
    /\ wf.raisers = {}
    /\ wf.calls = <<"researcher", "critic", "reviser">>
    /\ Persisted(wf.task_id).status = Completed

\* C28: a run during which cancel_task ran makes the calls its capability
\* outcomes determine and leaves in the store the plan, sources, report,
\* feedback and revision count it computed, as a run without a cancel does;
\* the status of the task it works on is the one read at its start until the
\* researcher assigns its own, never one read later from the store.
C28_CancelDoesNotAlterRun ==
    /\ [][(Running(wf) /\ Running(wf')) =>
             \/ wf'.task.status = wf.task.status
             \/ wf.pc = "l118" /\ wf'.task.status = InProgress]_vars
    /\ []((RunEnding /\ ~wf.store_failed /\ "observer" \notin wf.raisers) =>
             LET row == Persisted(wf.task_id)
             IN  /\ CallsAsOutcomesDetermine(wf)
                 /\ "researcher" \notin wf.raisers =>
                       /\ row.plan = wf.task.plan
                       /\ wf.task.raw_search_results > 0 =>
                             row.raw_search_results = wf.task.raw_search_results
                 /\ row.current_report = wf.task.current_report
                 /\ wf.produced # <<>> => row.current_report = Some(Last(wf.produced))
                 /\ row.feedback_history = wf.task.feedback_history
                 /\ row.revision_count = wf.task.revision_count
                 /\ row.revision_count >= CallsOf(wf, "reviser") - 1)

\* a cancel accepted in the reviewing phase is still about to return when the
\* run has called the critic's successor, the reviser, and ended completed
C28_Witness ==
    /\ RunEnding /\ ~wf.store_failed /\ wf.raisers = {}
    /\ cn.pc = "l249" /\ cn.seen = Reviewing /\ cn.wrote
    /\ wf.calls = <<"researcher", "critic", "reviser">>
    /\ Persisted(wf.task_id).revision_count = wf.task.revision_count
    /\ Persisted(wf.task_id).status = Completed

\* C29: the merge and the report-writing call happen only when both lookups
\* have returned or raised: no lookup is in flight when the writing call
\* starts, and every source with a URL returned by the lookup that completed
\* last is in the sources the report is written from, itself or, when the
\* other lookup returned the same URL, through that URL.
C29_FanInBeforeDraft ==
    /\ gd.pc \in {"merged", "writing"} =>
          \A p \in Providers : gd[p].state \in {"returned", "raised"}
    /\ gd.pc = "writing" =>
          LET last == CHOOSE p \in Providers :
                          ToolName(p) = Last(gd.tools_called).tool_name
              other == CHOOSE p \in Providers : p # last
              HasUrl(src) == src.url \notin {None, Some("")}
          IN  /\ gd.pending = {}
              /\ Len(gd.tools_called) = Cardinality(Providers)
              /\ gd.source_count = Len(gd.sources)
              /\ \A i \in DOMAIN gd[last].result :
                    LET src == gd[last].result[i]
                    IN  HasUrl(src) =>
                          /\ \E k \in DOMAIN gd.sources : gd.sources[k].url = src.url
                          /\ (/\ \A j \in DOMAIN gd[other].result :
                                    gd[other].result[j].url # src.url
                              /\ \A j \in 1..(i - 1) : gd[last].result[j].url # src.url)
                                => \E k \in DOMAIN gd.sources : gd.sources[k] = src

\* wikipedia returned B first, the web search returned A last: the report is
\* written from both
C29_Witness ==
    /\ gd.pc = "writing"
    /\ gd.tools_called[2].tool_name = "web_search"
    /\ gd.web.result = SourcesOf("web", <<Some("A")>>)
    /\ gd.wiki.result = SourcesOf("wiki", <<Some("B")>>)
    /\ gd.sources = <<[title |-> "web_search", n |-> 1, url |-> Some("A")],
                      [title |-> "wikipedia_search", n |-> 1, url |-> Some("B")]>>

\* C30: whatever decision the critic attached, the gate passes exactly when
\* the score reaches the threshold: the run is in the passed branch only with
\* such a score and in the revising branch only with a lower one, and at its
\* end its calls and status transitions are the ones the score (with the
\* capability outcomes) determines; the decision field appears nowhere.
C30_GateReadsScoreOnly ==
    /\ wf.pc = "l181" => wf.feedback[1].overall_score >= MinQualityScore
    /\ wf.pc \in {"l185", "l186", "l189"} =>
          wf.feedback[1].overall_score < MinQualityScore
    /\ (RunEnding /\ ~wf.data_failed /\ "observer" \notin wf.raisers
                  /\ wf.feedback # None) =>
          LET passes == wf.feedback[1].overall_score >= MinQualityScore
          IN  /\ CallsAsOutcomesDetermine(wf)
              /\ wf.gate <=> passes
              /\ passes => Last(wf.calls) = "critic"
              /\ (~passes /\ "critic" \notin wf.raisers) =>
                    CallsOf(wf, "reviser") = CallsOf(wf, "critic")
              /\ wf.statuses = StatusesFor(wf.calls, wf.raisers)

\* a first run revised on 3.0 although the critic said approve, and a second
\* run passed the gate on 6.5 although the critic said revise
C30_Witness ==
    /\ RunEnding /\ nRuns = 2 /\ ~wf.data_failed
    /\ wf.task.feedback_history =
          <<CritiqueFeedback(30, "approve"), CritiqueFeedback(65, "revise")>>
    /\ wf.task.revision_count = 1
    /\ wf.calls = <<"researcher", "critic">>
    /\ wf.statuses = <<InProgress, Reviewing, Completed>>

\* C31: the researcher makes the plan-generation call exactly when the task it
\* was given has no plan; given a task that has one it leaves the in-memory and
\* the persisted plan as they were, and a persisted plan never changes: at the
\* end of a run that made no plan-generation call the task's plan is the one
\* the store held before the run.
C31_PlanOnlyWhenAbsent ==
    /\ [][(wf.pc = "l118" /\ wf'.pc # "l118") =>
             /\ wf'.planned <=> (wf.task.plan = None)
             /\ wf.task.plan # None =>
                   /\ wf'.task.plan = wf.task.plan
                   /\ research_tasks'[wf.task_id].plan = research_tasks[wf.task_id].plan]_vars
    /\ [][\A tid \in DOMAIN research_tasks :
             research_tasks[tid].plan # None =>
                 research_tasks'[tid].plan = research_tasks[tid].plan]_vars
    /\ []((Running(wf) /\ wf.pc # "l118" /\ wf.planned) =>
             \/ wf.task.plan = Some([run |-> nRuns])
             \/ wf.task.plan = None /\ "researcher" \in wf.raisers)
    /\ []((RunEnding /\ wf.calls # <<>> /\ ~wf.planned) =>
             /\ wf.task.plan # None /\ wf.task.plan[1].run < nRuns
             /\ Persisted(wf.task_id).plan = wf.task.plan)

\* a second run of a task whose first run saved its plan: a new draft, the
\* plan still the first run's
C31_Witness ==
    /\ RunEnding /\ nRuns = 2 /\ ~wf.planned
    /\ wf.produced # <<>> /\ Last(wf.produced).run = 2
    /\ wf.task.plan = Some([run |-> 1])
    /\ Persisted(wf.task_id).plan = Some([run |-> 1])

\* C32: a start_workflow call that finds no task (the store does not know the
\* identifier, or the read failed) returns at once and normally: it leaves no
\* coroutine state behind, calls no agent, writes neither table and emits no
\* event; a call is started on a task only when the store returned its row.
C32_UnknownTaskIsNoOp ==
    [][(nRuns' = nRuns + 1) =>
          LET found == wf'.pc # "returned"
          IN  /\ wf'.pc # "raised"
              /\ TaskIds \cap DOMAIN research_tasks = {} => ~found
              /\ ~found =>
                    /\ wf' = [IdleWf EXCEPT !.pc = "returned"]
                    /\ research_tasks' = research_tasks
                    /\ task_logs' = task_logs
                    /\ observers' = observers /\ obsOwed' = obsOwed
                    /\ lastEmitter' = lastEmitter
                    /\ cn' = cn /\ create_result' = create_result
              /\ found =>
                    /\ wf'.task_id \in DOMAIN research_tasks
                    /\ wf'.task = research_tasks[wf'.task_id]]_vars

\* start_workflow was called on an empty store and has returned; a listener
\* registered before the call is owed nothing
C32_Witness ==
    /\ wf = [IdleWf EXCEPT !.pc = "returned"]
    /\ nRuns = 1 /\ research_tasks = <<>> /\ task_logs = {}
    /\ Len(observers) = 1 /\ obsOwed[1] = 0

\* C33: process() of the critic on a task without a current report, and of the
\* reviser on a task without a current report or with an empty feedback
\* history, ends by raising the error of the validation, with no generation
\* call made, nothing returned and the task as it was given; on any other task
\* the validation raises nothing and exactly one generation call is made.
C33_PreconditionsCheckedFirst ==
    ap.pc \notin {"idle", "called"} =>
        LET missing == \/ ap.given.current_report = None
                       \/ ap.agent = "reviser" /\ ap.given.feedback_history = <<>>
            texts == {"No report found in task to critique",
                      "Reviser cannot work without an existing report",
                      "Reviser cannot work without critique feedback"}
        IN  /\ ap.task = ap.given
            /\ missing =>
                  /\ ap.pc = "raised" /\ ap.exc \in texts
                  /\ ap.generation_calls = 0
                  /\ ap.result = None
            /\ ~missing =>
                  /\ ap.generation_calls = 1
                  /\ ap.exc \notin texts

\* the reviser, given a report and no feedback, has raised
C33_Witness ==
    /\ ap.pc = "raised" /\ ap.agent = "reviser"
    /\ ap.given.current_report # None /\ ap.given.feedback_history = <<>>
    /\ ap.exc = "Reviser cannot work without critique feedback"
    /\ ap.generation_calls = 0

\* C34: create_task either returns the id the store assigned to the row it
\* inserted in that call, or raises and returns nothing, leaving the store as it
\* was; what it returned is the id of a row of the store from then on; no step
\* changes the id of a row, rows are never removed, and the task a run works
\* on carries the id the run was started with.
C34_IdentifierFromStoreOnly ==
    /\ [][(create_result' # create_result \/ Len(research_tasks') # Len(research_tasks)) =>
             \/ /\ Len(research_tasks') = Len(research_tasks) + 1
                /\ create_result'.returned = research_tasks'[Len(research_tasks')].id
                /\ create_result'.returned # None
                /\ \A i \in DOMAIN research_tasks :
                      research_tasks[i].id # create_result'.returned
                /\ ~create_result'.raised
             \/ /\ research_tasks' = research_tasks
                /\ create_result'.returned = None
                /\ create_result'.raised]_vars
    /\ [][/\ Len(research_tasks') >= Len(research_tasks)
          /\ \A i \in DOMAIN research_tasks :
                research_tasks'[i].id = research_tasks[i].id]_vars
    /\ [](/\ create_result.returned # None =>
                \E i \in DOMAIN research_tasks :
                    research_tasks[i].id = create_result.returned
          /\ \A i \in DOMAIN research_tasks : research_tasks[i].id = Some(i)
          /\ (Running(wf) \/ cn.wrote) =>
                /\ Running(wf) => wf.task.id = Some(wf.task_id)
                /\ cn.wrote => cn.task_id \in DOMAIN research_tasks)

\* the task create_task returned has been run, revised and cancelled in between
\* and still has the id it was given
C34_Witness ==
    /\ RunEnding /\ wf.task.revision_count = 1
    /\ create_result = [returned |-> Some(1), raised |-> FALSE]
    /\ research_tasks[1].id = Some(1) /\ wf.task.id = Some(1)
    /\ cn.task_id = 1 /\ cn.result = Some(TRUE)

\* C35: every status change of a run or of cancel_task writes the status and,
\* in the same step, emits the status_update event carrying that status (the
\* value the store holds when the write succeeded); and no listener is handed
\* the status_update of a later write before the one of an earlier write.
C35_StatusEventsFollowWrites ==
    /\ [][/\ Len(wf'.statuses) = Len(wf.statuses) + 1 =>
                /\ wf'.ev = [type |-> "status_update", task_id |-> wf'.task_id,
                             status |-> Last(wf'.statuses), message |-> NoMessage]
                /\ obsOwed' = Emitted(obsOwed)
                /\ ~wf'.store_failed =>
                      research_tasks'[wf'.task_id].status = wf'.ev.status
          /\ (cn'.wrote /\ ~cn.wrote) =>
                /\ cn'.ev = [type |-> "status_update", task_id |-> cn'.task_id,
                             status |-> Failed, message |-> NoMessage]
                /\ obsOwed' = Emitted(obsOwed)
                /\ ~cn'.store_failed =>
                      research_tasks'[cn'.task_id].status = Failed]_vars
    /\ [](~(/\ Overtaking
            /\ wf.ev.type = "status_update" /\ cn.ev.type = "status_update"))

\* C36: from the start of a run until the researcher has returned, and for the
\* rest of a run whose researcher raised, no step changes the persisted plan,
\* raw_search_results or current_report of any task: a run whose research
\* phase failed leaves them as they were before it, whatever the researcher
\* had put on the in-memory task by then.
DataOf(row) == <<row.plan, row.raw_search_results, row.current_report>>

C36_FailedResearchPersistsNothing ==
    /\ [][(\/ ~Running(wf)
           \/ wf.pc \in {"l114", "l115"}
           \/ wf.pc = "l118" /\ "researcher" \in wf'.raisers
           \/ "researcher" \in wf.raisers) =>
              \A tid \in DOMAIN research_tasks :
                  DataOf(research_tasks'[tid]) = DataOf(research_tasks[tid])]_vars
    /\ []((RunEnding /\ "researcher" \in wf.raisers /\ wf.fresh) =>
             DataOf(Persisted(wf.task_id)) = <<None, 0, None>>)

\* the researcher raised while drafting: the in-memory task has a plan and
\* sources, the store has neither
C36_Witness ==
    /\ RunEnding /\ "researcher" \in wf.raisers
    /\ wf.task.plan # None /\ wf.task.raw_search_results > 0
    /\ DataOf(Persisted(wf.task_id)) = <<None, 0, None>>
    /\ Persisted(wf.task_id).status = Failed

\* C37: a step of cancel_task, wherever it falls among the steps of a running
\* workflow, leaves the plan, raw search results, current report, feedback
\* history and revision count of every row as they are; the only status it
\* writes is failed on the task it was called for, and the only log row it
\* adds is that task's cancellation message.
C37_CancelWritesStatusAndLogOnly ==
    [][(cn' # cn) =>
          /\ Len(research_tasks') = Len(research_tasks)
          /\ \A tid \in DOMAIN research_tasks :
                /\ [research_tasks'[tid] EXCEPT !.status = Pending] =
                       [research_tasks[tid] EXCEPT !.status = Pending]
                /\ research_tasks'[tid].status # research_tasks[tid].status =>
                       /\ tid = cn'.task_id /\ ~cn.wrote /\ cn'.wrote
                       /\ research_tasks'[tid].status = Failed
          /\ task_logs' # task_logs =>
                /\ cn.pc = "l248" /\ cn'.logged
                /\ task_logs' = task_logs \cup {CancellationRow(cn.task_id)}
          /\ wf' = wf]_vars

\* a cancel accepted while the run was revising has written and logged; the
\* run has meanwhile saved its revision, and the row holds the report, the
\* feedback and the count of that revision
C37_Witness ==
    /\ cn.pc = "l249" /\ cn.seen = Revising /\ cn.wrote /\ cn.logged
    /\ Running(wf) /\ wf.task_id = cn.task_id
    /\ CancellationRow(cn.task_id) \in task_logs
    /\ Persisted(cn.task_id).revision_count = 1
    /\ Persisted(cn.task_id).current_report = Some(Last(wf.produced))
    /\ Len(wf.produced) = 2
    /\ Persisted(cn.task_id).feedback_history # <<>>

\* C38: the persisted status of every task is one of pending, in_progress,
\* reviewing, revising, completed, failed, and so is every status written or
\* emitted by a run; the in-memory task is never left with planning at an
\* await, and once the researcher got past plan generation its status is
\* in_progress.
C38_PlanningNeverPersisted ==
    LET persistable == {Pending, InProgress, Reviewing, Revising, Completed, Failed}
    IN  /\ \A tid \in DOMAIN research_tasks : research_tasks[tid].status \in persistable
        /\ \A i \in DOMAIN wf.statuses : wf.statuses[i] \in persistable
        /\ wf.ev.status # Planning /\ cn.ev.status # Planning
        /\ wf.task.status # Planning
        /\ (/\ Running(wf) /\ wf.calls # <<>> /\ wf.pc # "l118"
            /\ ("researcher" \notin wf.raisers \/ wf.task.plan # None)) =>
              wf.task.status = InProgress

\* the researcher generated a plan for a task loaded as pending and returned
C38_Witness ==
    /\ wf.pc = "l123" /\ wf.planned /\ wf.fresh
    /\ wf.task.plan = Some([run |-> nRuns])
    /\ wf.task.status = InProgress
    /\ Persisted(wf.task_id).status \in {InProgress, Failed}

\* C39: a source a lookup returned with a null or empty URL is neither among
\* the sources the report is written from nor in the task's
\* raw_search_results; both hold the same list, every entry of which has a
\* URL, and its length is the number of distinct non-empty URLs returned.
C39_UrllessSourcesDropped ==
    gd.pc = "writing" =>
        LET all == gd.web.result \o gd.wiki.result
            Urlless(src) == src.url \in {None, Some("")}
            urls == {all[i].url : i \in {j \in DOMAIN all : ~Urlless(all[j])}}
        IN  /\ gd.raw_search_results = gd.sources
            /\ \A k \in DOMAIN gd.sources : ~Urlless(gd.sources[k])
            /\ \A i \in DOMAIN all :
                  Urlless(all[i]) =>
                      /\ \A k \in DOMAIN gd.sources : gd.sources[k] # all[i]
                      /\ \A k \in DOMAIN gd.raw_search_results :
                            gd.raw_search_results[k] # all[i]
            /\ Len(gd.sources) = Cardinality(urls)
            /\ {gd.sources[k].url : k \in DOMAIN gd.sources} = urls
            /\ gd.source_count = Cardinality(urls)

\* the web search returned a source without URL and A, wikipedia one with an
\* empty URL and A again: the report is written from the web search's A alone
C39_Witness ==
    /\ gd.pc = "writing"
    /\ gd.web.result = SourcesOf("web", <<None, Some("A")>>)
    /\ gd.wiki.result = SourcesOf("wiki", <<Some(""), Some("A")>>)
    /\ gd.sources = <<[title |-> "web_search", n |-> 2, url |-> Some("A")]>>
    /\ gd.raw_search_results = gd.sources

====
